---- MODULE Spec2Model ----
(***************************************************************************)
(* A model of the TelegramGroup link rotation scripts.                     *)
(*                                                                         *)
(*   link_updater.py  MarkdownLinkUpdater: validate the configuration,     *)
(*                    then loop { _update_links; _commit_changes;          *)
(*                    _push_to_remote; sleep }.                            *)
(*   markdown.py      replace_jiso_line + git_operations, run once.        *)
(*                                                                         *)
(* Text is modelled character by character: a text is a sequence of        *)
(* one-character strings.  The file on disk is such a sequence too (every  *)
(* character of the model is ASCII, so UTF-8 bytes and characters agree).  *)
(***************************************************************************)
EXTENDS Integers, Sequences, FiniteSets, TLC

\* ------------------------------------------------------------------------
\* Bounds of the model (not program constants).

\* The most parts (links, stray characters) an initial file is built from.
MaxParts == 2

\* The largest interval, in minutes, a configuration is given.
MaxInterval == 2

\* The most lines of the README handed to replace_jiso_line.
MaxLines == 2

\* The longest time, in minutes, the machine has been up when time.sleep is
\* called.
MaxUptime == 8

\* ------------------------------------------------------------------------
\* Text helpers.

\* The literal text both regular expressions and both replacements start
\* with: https://t.me/jiso?start=a_  (in the patterns '.' and '?' are
\* escaped, so the pattern matches exactly this text).
URL_PREFIX ==
    << "h", "t", "t", "p", "s", ":", "/", "/", "t", ".", "m", "e", "/",
       "j", "i", "s", "o", "?", "s", "t", "a", "r", "t", "=", "a", "_" >>

\* The number of seconds in a minute: wait_time is drawn in seconds from
\* intervals given in minutes.
SecondsPerMinute == 60

\* A number of seconds, held as the minutes and seconds run() prints
\* (wait_time // 60 and wait_time % 60): the intervals the configuration
\* check accepts reach beyond the integers of the model checker.
Duration(m, s) == [minutes |-> m, seconds |-> s]

\* The duration of n seconds.
Seconds(n) == Duration(n \div SecondsPerMinute, n % SecondsPerMinute)

\* d1 is at most d2.
AtMost(d1, d2) ==
    \/ d1.minutes < d2.minutes
    \/ d1.minutes = d2.minutes /\ d1.seconds <= d2.seconds

\* The sum of two durations.
Plus(d1, d2) ==
    Duration(d1.minutes + d2.minutes
                 + ((d1.seconds + d2.seconds) \div SecondsPerMinute),
             (d1.seconds + d2.seconds) % SecondsPerMinute)

\* The latest deadline time.sleep can hold in its 63-bit count of
\* nanoseconds on the monotonic clock: 9223372036 seconds.
MaxSleep == Duration(153722867, 16)

\* An interval (in minutes) _validate_config accepts and time.sleep never
\* does.
HugeInterval == 200000000

\* An interval (in minutes) _validate_config accepts and time.sleep accepts
\* only on a machine that has been up for less than 7 minutes 16 seconds.
BandInterval == 153722860

\* What the monotonic clock can read, in whole seconds, when time.sleep is
\* called: the time the machine has been up, at least a second.
MonotonicClocks ==
    { Seconds(1) } \cup { Duration(m, 0) : m \in 1..MaxUptime }

\* time.sleep(wait_time), called when the monotonic clock reads clock,
\* raises instead of sleeping: its deadline clock + wait_time is beyond
\* MaxSleep (OverflowError when wait_time alone is, OSError [Errno 22]
\* otherwise).
SleepRaises(wait_time, clock) == ~AtMost(Plus(wait_time, clock), MaxSleep)

\* What Path.is_dir() / Path.is_file() does: returns True, returns False,
\* or raises an OSError (a name the file system refuses, such as one of
\* 300 characters).
PathChecks == { "true", "false", "oserror" }

\* f'https://t.me/jiso?start=a_{id}': the URL form of an identifier.  The
\* pattern rf'https://t\.me/jiso\?start=a_{re.escape(id)}' matches exactly
\* this text, so the same sequence stands for the pattern.
UrlForm(id) == URL_PREFIX \o id

\* Whether the literal text p occurs in s at position i (1-based).
MatchAt(p, s, i) ==
    /\ i >= 1
    /\ i + Len(p) - 1 <= Len(s)
    /\ SubSeq(s, i, i + Len(p) - 1) = p

\* bool(re.search(p, s)) for a literal pattern p.
Search(p, s) == \E i \in 1..(Len(s) + 1) : MatchAt(p, s, i)

\* The position of the leftmost occurrence of the literal text p in s, 0
\* when there is none.
FirstMatch(p, s) ==
    IF Search(p, s)
    THEN CHOOSE i \in 1..(Len(s) + 1) :
           /\ MatchAt(p, s, i)
           /\ \A j \in 1..(i - 1) : ~MatchAt(p, s, j)
    ELSE 0

\* re.sub(p, r, s) for a literal, non-empty pattern p and an already
\* expanded replacement r: the non-overlapping occurrences of p, found left
\* to right, are each replaced by r.
RECURSIVE SubLiteral(_, _, _)
SubLiteral(p, r, s) ==
    LET i == FirstMatch(p, s)
    IN  IF i = 0 THEN s
        ELSE SubSeq(s, 1, i - 1) \o r
               \o SubLiteral(p, r, SubSeq(s, i + Len(p), Len(s)))

\* len(re.findall(p, s)): the number of non-overlapping occurrences of the
\* literal, non-empty pattern p, found left to right.
RECURSIVE FindAllCount(_, _)
FindAllCount(p, s) ==
    LET i == FirstMatch(p, s)
    IN  IF i = 0 THEN 0
        ELSE 1 + FindAllCount(p, SubSeq(s, i + Len(p), Len(s)))

\* The characters re treats as a group reference after a backslash in a
\* replacement template (the model's identifiers use only these digits).
GroupDigits == { "1", "2" }

\* The replacement string of re.sub is a template: a backslash starts an
\* escape.  "\\" stands for one backslash; "\1", "\2" refer to a group the
\* pattern does not have and a backslash that ends the template is a bad
\* escape: both raise re.error.  Every other character stands for itself
\* (the model's templates hold no backslash followed by anything else).

\* Whether the template t is well formed (re.sub raises re.error if not).
RECURSIVE TemplateOk(_)
TemplateOk(t) ==
    LET i == FirstMatch(<< "\\" >>, t)
    IN  IF i = 0 THEN TRUE
        ELSE IF i = Len(t) THEN FALSE
        ELSE IF t[i + 1] \in GroupDigits THEN FALSE
        ELSE TemplateOk(SubSeq(t, i + 2, Len(t)))

\* The text each match is replaced by, for a well-formed template t.
RECURSIVE ExpandTemplate(_)
ExpandTemplate(t) ==
    LET i == FirstMatch(<< "\\" >>, t)
    IN  IF i = 0 \/ i = Len(t) THEN t
        ELSE IF t[i + 1] = "\\"
        THEN SubSeq(t, 1, i) \o ExpandTemplate(SubSeq(t, i + 2, Len(t)))
        ELSE SubSeq(t, 1, i + 1) \o ExpandTemplate(SubSeq(t, i + 2, Len(t)))

\* open(path, "r").read() in text mode with the default newline handling:
\* "\r\n" and a lone "\r" are both read as "\n".
RECURSIVE ReadText(_)
ReadText(b) ==
    LET i == FirstMatch(<< "\r" >>, b)
    IN  IF i = 0 THEN b
        ELSE SubSeq(b, 1, i - 1) \o << "\n" >>
               \o ReadText(SubSeq(b,
                                  IF i < Len(b) /\ b[i + 1] = "\n"
                                  THEN i + 2 ELSE i + 1,
                                  Len(b)))

\* open(path, "w").write(text) on a POSIX system: "\n" is written as is.
WriteText(text) == text

\* ------------------------------------------------------------------------
\* link_updater.py: the pure parts.

\* _validate_config: the first check that fails names the ValueError raised,
\* "path_oserror" when is_dir() or is_file() itself raises, "ok" when every
\* check passes.
ValidateConfig(is_dir, is_file, imin, imax) ==
    IF is_dir = "oserror" THEN "path_oserror"
    ELSE IF is_dir = "false" THEN "repo_missing"
    ELSE IF is_file = "oserror" THEN "path_oserror"
    ELSE IF is_file = "false" THEN "file_missing"
    ELSE IF imin <= 0 \/ imax <= 0 THEN "interval_not_positive"
    ELSE IF imin > imax THEN "interval_min_above_max"
    ELSE "ok"

\* What the environment does to one _update_links call:
\*   none         nothing fails
\*   read         opening or reading the file raises
\*   write_open   opening the file for writing raises (nothing is truncated)
\*   write        the file is opened (and so truncated) and the write raises
\*                after the system accepted only the first characters (file
\*                size limit, full disk, encoding error)
\*   interrupt_before_write
\*                KeyboardInterrupt arrives after last_replacement was set
\*                and before the file is opened for writing
\*   interrupt_write
\*                KeyboardInterrupt arrives once the file is opened for
\*                writing and before the success message is printed
IoFaults ==
    { "none", "read", "write_open", "write", "interrupt_before_write",
      "interrupt_write" }

\* The branches without the test for both links: the first link wins.
ClassifyFirstLinkWins(has_link_1, has_link_2) ==
    IF has_link_1 THEN "first"
    ELSE IF has_link_2 THEN "second"
    ELSE "not_found"

\* The branches with a plain "else" in place of "elif has_link_2": a file
\* without a link is treated as holding the second one.
ClassifyElseSecond(has_link_1, has_link_2) ==
    IF has_link_1 /\ has_link_2 THEN "ambiguous"
    ELSE IF has_link_1 THEN "first"
    ELSE "second"

\* The branch _update_links takes on has_link_1 and has_link_2: both links
\* present is ambiguous, otherwise the link present is rotated to the other.
Classify(has_link_1, has_link_2) ==
    IF has_link_1 /\ has_link_2 THEN "ambiguous"
    ELSE IF has_link_1 THEN "first"
    ELSE IF has_link_2 THEN "second"
    ELSE "not_found"

\* What _update_links returns from its "except Exception": False, with the
\* file holding f and last_replacement being l.
UpdateFailed(f, l) ==
    [ret |-> FALSE, file |-> f, signal |-> "update_failed", last |-> l,
     count |-> 0, interrupted |-> FALSE]

\* A KeyboardInterrupt leaves _update_links ("except Exception" does not
\* catch it) with the file holding f and last_replacement being l; the
\* call has printed nothing.
UpdateInterrupted(f, l) ==
    [ret |-> FALSE, file |-> f, signal |-> "none", last |-> l,
     count |-> 0, interrupted |-> TRUE]

\* What is on disk when only the first written characters of text went
\* out before the write ended.
Written(text, written) ==
    SubSeq(text, 1, IF written < Len(text) THEN written ELSE Len(text))

\* _update_links from the point where content has been read from a file
\* holding the characters b, when nothing interferes with it.
UpdateContent(b, content, id1, id2, last) ==
    LET pattern_1 == UrlForm(id1)
        pattern_2 == UrlForm(id2)
        has_link_1 == Search(pattern_1, content)
        has_link_2 == Search(pattern_2, content)
        Skipped(sig) == [ret |-> FALSE, file |-> b, signal |-> sig,
                         last |-> last, count |-> 0, interrupted |-> FALSE]
        Rotate(pattern, current_id, target_id) ==
            LET new_last    == << current_id, target_id >>
                replacement == UrlForm(target_id)
                updated     == SubLiteral(pattern, ExpandTemplate(replacement),
                                          content)
            IN  IF ~TemplateOk(replacement) THEN UpdateFailed(b, new_last)
                ELSE [ret |-> TRUE, file |-> WriteText(updated),
                      signal |-> "replaced", last |-> new_last,
                      count |-> FindAllCount(pattern, content),
                      interrupted |-> FALSE]
        branch == Classify(has_link_1, has_link_2)
    IN  IF branch = "ambiguous" THEN Skipped("ambiguous")
        ELSE IF branch = "first" THEN Rotate(pattern_1, id1, id2)
        ELSE IF branch = "second" THEN Rotate(pattern_2, id2, id1)
        ELSE Skipped("not_found")

\* _update_links on a file holding the characters b when nothing
\* interferes with it.  (The file is read once: content is bound to the
\* text read.)
UpdateUndisturbed(b, id1, id2, last) ==
    CHOOSE r \in { UpdateContent(b, content, id1, id2, last) :
                     content \in { ReadText(b) } } : TRUE

\* What becomes of the call that would have ended as undisturbed when io
\* happens to it, on a file that held b with last_replacement being last;
\* written is the number of characters that reach the disk when the write
\* does not complete.  An io whose place the call does not get to (it
\* returned before, or re.sub raised) changes nothing.
WithIoFault(undisturbed, b, last, io, written) ==
    IF io = "none" THEN undisturbed
    ELSE IF io = "read" THEN UpdateFailed(b, last)
    ELSE IF undisturbed.signal \in { "ambiguous", "not_found" }
    THEN undisturbed
    ELSE IF io = "interrupt_before_write"
    THEN UpdateInterrupted(b, undisturbed.last)
    ELSE IF undisturbed.signal = "update_failed" THEN undisturbed
    ELSE IF io = "write_open" THEN UpdateFailed(b, undisturbed.last)
    ELSE IF io = "write"
    THEN UpdateFailed(Written(undisturbed.file, written), undisturbed.last)
    ELSE UpdateInterrupted(Written(undisturbed.file, written),
                           undisturbed.last)

\* _update_links on a file holding the characters b, as one function: the
\* value returned (ret), the file afterwards, the message printed (signal),
\* last_replacement afterwards, the count printed, and whether a
\* KeyboardInterrupt left the call.  Every exception is caught by the
\* method's own "except Exception" (signal update_failed).
UpdateLinks(b, id1, id2, last, io, written) ==
    WithIoFault(UpdateUndisturbed(b, id1, id2, last), b, last, io, written)

\* The values written can take when io happens to the call that would have
\* ended as undisturbed; none when the call does not get to the place of
\* io.  A write that raises has put out fewer characters than the text,
\* one that is interrupted up to all of them (the file is flushed as the
\* with block is left).
WrittenLengths(undisturbed, io) ==
    IF io \in { "none", "read" } THEN { 0 }
    ELSE IF undisturbed.signal \in { "ambiguous", "not_found" } THEN { }
    ELSE IF io = "interrupt_before_write" THEN { 0 }
    ELSE IF undisturbed.signal = "update_failed" THEN { }
    ELSE IF io = "write_open" THEN { 0 }
    ELSE IF io = "write" THEN 0..(Len(undisturbed.file) - 1)
    ELSE 0..Len(undisturbed.file)

\* How one subprocess.run of git ends: exit status zero, a non-zero exit
\* status (subprocess.CalledProcessError), the subprocess cannot be run at
\* all (an OSError such as FileNotFoundError), or KeyboardInterrupt arrives
\* while run() waits for it.
GitOutcomes == { "zero", "nonzero", "oserror", "interrupted" }

\* _run_git_command: CalledProcessError is caught and printed and "" is
\* returned; any other exception leaves the method, and so does
\* KeyboardInterrupt.
RunGitCommand(cmd, outcome) ==
    [call        |-> [cmd |-> cmd, outcome |-> outcome],
     logged      |-> outcome = "nonzero",
     raised      |-> outcome = "oserror",
     interrupted |-> outcome = "interrupted"]

\* _commit_changes up to the return of git add: the git call made, whether
\* the method has returned (its "except Exception" returns False when the
\* call raised) and the value it then returned, whether an exception
\* leaves the method (never), and whether KeyboardInterrupt leaves it.
CommitChangesAdd(o_add) ==
    LET add == RunGitCommand("add", o_add)
    IN  [ret |-> FALSE, calls |-> << add.call >>, returned |-> add.raised,
         raised |-> FALSE, interrupted |-> add.interrupted]

\* _commit_changes from git commit on: True is returned unless the call
\* raised.
CommitChangesCommit(o_commit) ==
    LET commit == RunGitCommand("commit", o_commit)
    IN  [ret |-> ~commit.raised, calls |-> << commit.call >>,
         returned |-> ~commit.interrupted, raised |-> FALSE,
         interrupted |-> commit.interrupted]

\* _push_to_remote: git push; an exception is caught and False returned,
\* KeyboardInterrupt leaves the method.
PushToRemote(o_push) ==
    LET push == RunGitCommand("push", o_push)
    IN  [ret |-> ~push.raised, calls |-> << push.call >>, raised |-> FALSE,
         interrupted |-> push.interrupted]

\* random.randint(interval_min * 60, interval_max * 60): the values
\* wait_time can take, from imin minutes to imax minutes.
WaitTimes(imin, imax) ==
    { d \in { Duration(m, sec) : m \in imin..imax,
                                 sec \in 0..(SecondsPerMinute - 1) } :
        AtMost(d, Duration(imax, 0)) }

\* Where run() goes after _update_links returned ret: into
\* _commit_changes, whose first call is git add, or past the else branch
\* to the sleep.
AfterUpdate(ret) == IF ret THEN "add" ELSE "sleep"

\* Where run() goes after _commit_changes returned ret.
AfterCommit(ret) == IF ret THEN "push" ELSE "sleep"

\* ------------------------------------------------------------------------
\* link_updater.py: the state.

VARIABLES
    repo_is_dir,       \* what repo_path.is_dir() does (see PathChecks)
    file_is_file,      \* what file_path.is_file() does (see PathChecks)
    interval_min,      \* self.interval_min (minutes)
    interval_max,      \* self.interval_max (minutes)
    link_id_1,         \* self.link_id_1
    link_id_2,         \* self.link_id_2
    last_replacement,  \* self.last_replacement: << >> (None) or << from, to >>
    file,              \* the characters of the target file on disk
    pc,                \* where main() / run() stands
    signal,            \* what the last _update_links call printed ("none"
                       \* before the first call and when it printed
                       \* nothing)
    git_calls,         \* the git commands run since the cycle started
    wait_time,         \* the argument of the last time.sleep call while
                       \* it sleeps (and after it raised), else 0 seconds
    sleeps,            \* the time.sleep calls since the cycle started
    io_fault,          \* what the environment did to the file I/O of the
                       \* last _update_links call
    exit_code,         \* what main() returned (-1 while it runs and when
                       \* an exception left it)
    exit_message,      \* what was printed as main() / run() ended
    md_pc,             \* markdown.py: where the script stands
    md_lines,          \* markdown.py: the lines of README.md
    md_random_id,      \* markdown.py: the identifier random.choice returned
    md_git             \* markdown.py: the git commands git_operations ran

cfg_vars == << repo_is_dir, file_is_file, interval_min, interval_max,
               link_id_1, link_id_2 >>

md_vars == << md_pc, md_lines, md_random_id, md_git >>

vars == << repo_is_dir, file_is_file, interval_min, interval_max, link_id_1,
           link_id_2, last_replacement, file, pc, signal, git_calls,
           wait_time, sleeps, io_fault, exit_code, exit_message,
           md_pc, md_lines, md_random_id, md_git >>

\* ------------------------------------------------------------------------
\* The configurations and files the model starts from.

\* The identifiers handed to --link-id-1 and --link-id-2: two plain ones,
\* one that extends the other (either way round), one equal to the other,
\* and three that hold a backslash.
IdPairs ==
    { << << "1" >>, << "2" >> >>,
      << << "1" >>, << "1", "2" >> >>,
      << << "1", "2" >>, << "1" >> >>,
      << << "1" >>, << "1" >> >>,
      << << "2" >>, << "\\", "\\" >> >>,
      << << "2" >>, << "\\", "1" >> >>,
      << << "1" >>, << "2", "\\" >> >> }

\* The defaults of --link-id-1 and --link-id-2.
DefaultLinkId1 == << "7", "2", "0", "2", "4", "2", "4", "8", "9", "6" >>
DefaultLinkId2 == << "6", "2", "9", "4", "8", "8", "1", "8", "2", "0" >>

\* Every concatenation of at most n members of parts.
RECURSIVE Concatenations(_, _)
Concatenations(parts, n) ==
    IF n = 0 THEN { << >> }
    ELSE LET shorter == Concatenations(parts, n - 1)
         IN  shorter \cup { f \o q : f \in shorter, q \in parts }

\* The files a rotation starts from: links to either identifier, a stray
\* digit after a link, and line ends.
RotationFiles(id1, id2) ==
    Concatenations({ UrlForm(id1), UrlForm(id2), << "2" >>, << "\r" >>,
                     << "\n" >> }, MaxParts)

\* The files the scheduling configurations start from: no link, either
\* link, and both.
ScheduleFiles(id1, id2) ==
    { << >>, UrlForm(id1), UrlForm(id2), UrlForm(id1) \o UrlForm(id2) }

\* Valid one-minute configurations over the pairs of identifiers and
\* every rotation file.
RotationInit ==
    /\ \E ids \in IdPairs : link_id_1 = ids[1] /\ link_id_2 = ids[2]
    /\ file \in RotationFiles(link_id_1, link_id_2)
    /\ repo_is_dir = "true"
    /\ file_is_file = "true"
    /\ interval_min = 1
    /\ interval_max = 1

\* The intervals a run is started with: every pair of small ones, and for
\* both the huge one and the one time.sleep accepts on some machines.
IntervalPairs ==
    ((0..MaxInterval) \X (0..MaxInterval))
        \cup { << HugeInterval, HugeInterval >>,
               << BandInterval, BandInterval >> }

\* The default identifiers with every combination of paths and intervals.
ScheduleInit ==
    /\ link_id_1 = DefaultLinkId1
    /\ link_id_2 = DefaultLinkId2
    /\ file \in ScheduleFiles(link_id_1, link_id_2)
    /\ repo_is_dir \in PathChecks
    /\ file_is_file \in PathChecks
    /\ \E i \in IntervalPairs : interval_min = i[1] /\ interval_max = i[2]

\* markdown.py is not running.
MdIdle ==
    /\ md_pc = "idle"
    /\ md_lines = << >>
    /\ md_random_id = ""
    /\ md_git = << >>

\* main() has parsed its arguments and is about to construct the updater.
UpdaterStart ==
    /\ last_replacement = << >>
    /\ pc = "main"
    /\ signal = "none"
    /\ git_calls = << >>
    /\ wait_time = Seconds(0)
    /\ sleeps = 0
    /\ io_fault = "none"
    /\ exit_code = -1
    /\ exit_message = "none"

Init ==
    /\ RotationInit \/ ScheduleInit
    /\ UpdaterStart
    /\ MdIdle

\* ------------------------------------------------------------------------
\* link_updater.py: the steps of main() and run().

\* main(): MarkdownLinkUpdater(...) runs _validate_config.  A ValueError is
\* printed as a configuration error and main returns 1; an OSError of a
\* path check is printed as a program error by main's "except Exception"
\* and main returns 1; otherwise main calls run().
Construct ==
    /\ pc = "main"
    /\ LET verdict == ValidateConfig(repo_is_dir, file_is_file,
                                     interval_min, interval_max)
       IN  IF verdict = "ok"
           THEN /\ pc' = "run"
                /\ UNCHANGED << exit_code, exit_message >>
           ELSE /\ pc' = "exit"
                /\ exit_code' = 1
                /\ exit_message' = IF verdict = "path_oserror"
                                   THEN "program_error"
                                   ELSE "config_error"
    /\ UNCHANGED << cfg_vars, last_replacement, file, signal, git_calls,
                    wait_time, sleeps, io_fault, md_vars >>

\* run() prints its banner and enters the try block of its loop.
StartRun ==
    /\ pc = "run"
    /\ pc' = "update"
    /\ UNCHANGED << cfg_vars, last_replacement, file, signal, git_calls,
                    wait_time, sleeps, io_fault, exit_code, exit_message,
                    md_vars >>

\* The stages before run()'s try block: main() and the constructor, and
\* the banner of run().
StartStages == { "main", "run" }

\* The user interrupts before run() is in its try block: nothing catches
\* the KeyboardInterrupt, which leaves run() and main(); main returns
\* nothing.
InterruptBeforeLoop ==
    /\ pc \in StartStages
    /\ pc' = "exit"
    /\ exit_message' = "keyboard_interrupt"
    /\ UNCHANGED << cfg_vars, last_replacement, file, signal, git_calls,
                    wait_time, sleeps, io_fault, exit_code, md_vars >>

\* An exception reached run()'s "except Exception": it is printed, run()
\* returns and main returns 0.
ProgramError ==
    /\ pc' = "exit"
    /\ exit_code' = 0
    /\ exit_message' = "program_error"

\* KeyboardInterrupt reached run()'s "except KeyboardInterrupt": run()
\* prints that the program stopped and returns; main returns 0.
Stopped ==
    /\ pc' = "exit"
    /\ exit_code' = 0
    /\ exit_message' = "stopped"

\* The loop goes on to stage next.
GoOn(next) ==
    /\ pc' = next
    /\ UNCHANGED << exit_code, exit_message >>

\* A cycle starts: run() calls _update_links.
DoUpdateLinks ==
    /\ pc = "update"
    /\ \E undisturbed \in { UpdateUndisturbed(file, link_id_1, link_id_2,
                                                last_replacement) } :
         \E io \in IoFaults :
           \E written \in WrittenLengths(undisturbed, io) :
             LET r == WithIoFault(undisturbed, file, last_replacement, io,
                                  written)
             IN  /\ io_fault' = io
                 /\ file' = r.file
                 /\ last_replacement' = r.last
                 /\ signal' = r.signal
                 /\ IF r.interrupted THEN Stopped
                    ELSE GoOn(AfterUpdate(r.ret))
    /\ git_calls' = << >>
    /\ sleeps' = 0
    /\ UNCHANGED << cfg_vars, wait_time, md_vars >>

\* run() is in _commit_changes, which runs git add.
DoGitAdd ==
    /\ pc = "add"
    /\ \E o_add \in GitOutcomes :
         LET r == CommitChangesAdd(o_add)
         IN  /\ git_calls' = git_calls \o r.calls
             /\ IF r.interrupted THEN Stopped
                ELSE IF r.raised THEN ProgramError
                ELSE IF r.returned THEN GoOn(AfterCommit(r.ret))
                ELSE GoOn("commit")
    /\ UNCHANGED << cfg_vars, last_replacement, file, signal, wait_time,
                    sleeps, io_fault, md_vars >>

\* _commit_changes runs git commit and returns.
DoGitCommit ==
    /\ pc = "commit"
    /\ \E o_commit \in GitOutcomes :
         LET r == CommitChangesCommit(o_commit)
         IN  /\ git_calls' = git_calls \o r.calls
             /\ IF r.interrupted THEN Stopped
                ELSE IF r.raised THEN ProgramError
                ELSE GoOn(AfterCommit(r.ret))
    /\ UNCHANGED << cfg_vars, last_replacement, file, signal, wait_time,
                    sleeps, io_fault, md_vars >>

\* run() calls _push_to_remote.
DoPushToRemote ==
    /\ pc = "push"
    /\ \E o_push \in GitOutcomes :
         LET r == PushToRemote(o_push)
         IN  /\ git_calls' = git_calls \o r.calls
             /\ IF r.interrupted THEN Stopped
                ELSE IF r.raised THEN ProgramError
                ELSE GoOn("sleep")
    /\ UNCHANGED << cfg_vars, last_replacement, file, signal, wait_time,
                    sleeps, io_fault, md_vars >>

\* run() draws wait_time and calls time.sleep(wait_time), which sleeps, or
\* raises at once when the deadline is more than it can hold (that depends
\* on what the monotonic clock reads): the exception reaches run()'s
\* "except Exception".
Sleep ==
    /\ pc = "sleep"
    /\ wait_time' \in WaitTimes(interval_min, interval_max)
    /\ sleeps' = sleeps + 1
    /\ \E raises \in { SleepRaises(wait_time', clock) :
                            clock \in MonotonicClocks } :
         IF raises THEN ProgramError ELSE GoOn("sleeping")
    /\ UNCHANGED << cfg_vars, last_replacement, file, signal, git_calls,
                    io_fault, md_vars >>

\* time.sleep returns and the loop starts its next cycle.
Wake ==
    /\ pc = "sleeping"
    /\ wait_time' = Seconds(0)
    /\ pc' = "update"
    /\ UNCHANGED << cfg_vars, last_replacement, file, signal, git_calls,
                    sleeps, io_fault, exit_code, exit_message, md_vars >>

\* The stages of run()'s loop.
LoopStages == { "update", "add", "commit", "push", "sleep", "sleeping" }

\* The user interrupts run() inside its try block, between two of its
\* calls or in its sleep.
Interrupt ==
    /\ pc \in LoopStages
    /\ Stopped
    /\ UNCHANGED << cfg_vars, last_replacement, file, signal, git_calls,
                    wait_time, sleeps, io_fault, md_vars >>

Next ==
    \/ Construct
    \/ StartRun
    \/ InterruptBeforeLoop
    \/ DoUpdateLinks
    \/ DoGitAdd
    \/ DoGitCommit
    \/ DoPushToRemote
    \/ Sleep
    \/ Wake
    \/ Interrupt

Spec == Init /\ [][Next]_vars

\* Valid configurations (small intervals in order, and the huge one) over
\* two short identifiers and a file with no link, with one link and with
\* both links.
ProgressInit ==
    /\ link_id_1 = << "1" >>
    /\ link_id_2 = << "2" >>
    /\ file \in { << >>, UrlForm(link_id_1),
                  UrlForm(link_id_1) \o UrlForm(link_id_2) }
    /\ repo_is_dir = "true"
    /\ file_is_file = "true"
    /\ \E i \in IntervalPairs :
         /\ 0 < i[1]
         /\ i[1] <= i[2]
         /\ interval_min = i[1]
         /\ interval_max = i[2]

\* The start of a run with a valid configuration.
FairInit == ProgressInit /\ UpdaterStart /\ MdIdle

\* The calls run() makes return: a git subprocess ends and time.sleep
\* returns, so a stage that can be taken is taken.  An interruption is the
\* user's to make and nothing promises it.
FairSpec ==
    /\ FairInit
    /\ [][Next]_vars
    /\ WF_vars(Construct)
    /\ WF_vars(StartRun)
    /\ WF_vars(DoUpdateLinks)
    /\ WF_vars(DoGitAdd)
    /\ WF_vars(DoGitCommit)
    /\ WF_vars(DoPushToRemote)
    /\ WF_vars(Sleep)
    /\ WF_vars(Wake)

\* ------------------------------------------------------------------------
\* markdown.py.  A line of README.md is a sequence of pieces of text; the
\* pieces are chosen so that one of the two markers occurs in a line exactly
\* when it is one of the line's pieces.

\* ids of replace_jiso_line.
JisoIds == << "7737195905", "7439567495", "7202424896", "2114110836" >>

\* The marker the JiSo row starts with (the Chinese name followed by JiSo).
NameMarker == "JiSo"

\* The marker of the link text.
LinkMarker == "@jiso"

\* line_template.format(id).
LineTemplate(id) ==
    << "| ", NameMarker, "   | [", LinkMarker,
       "](https://t.me/jiso?start=a_", id, ") | description |\n" >>

\* marker in line.
Contains(line, marker) == \E i \in 1..Len(line) : line[i] = marker

\* The test replace_jiso_line makes on each line.
IsJisoLine(line) == Contains(line, NameMarker) /\ Contains(line, LinkMarker)

\* The index of the first line the loop of replace_jiso_line replaces, 0
\* when it finds none.
FirstJisoLine(content) ==
    IF \E i \in 1..Len(content) : IsJisoLine(content[i])
    THEN CHOOSE i \in 1..Len(content) :
           /\ IsJisoLine(content[i])
           /\ \A j \in 1..(i - 1) : ~IsJisoLine(content[j])
    ELSE 0

\* random.choice(ids): any member of ids.
RandomChoice(ids) == { ids[k] : k \in 1..Len(ids) }

\* replace_jiso_line with random_id the value random.choice returned: the
\* first JiSo line becomes the template filled with random_id, and the
\* lines are written back.
ReplaceJisoLine(content, random_id) ==
    LET i == FirstJisoLine(content)
    IN  IF i = 0 THEN content
        ELSE [content EXCEPT ![i] = LineTemplate(random_id)]

\* The git commands of git_operations, in the order it runs them.
MdGitCommands ==
    << "config user.name", "config user.email", "add", "commit",
       "rev-parse", "push" >>

\* git_operations when the command at fail_at exits non-zero (none does
\* when fail_at is past the last command): every subprocess.run has
\* check=True, so the first failure is printed and ends the function.
GitOperations(fail_at) ==
    SubSeq(MdGitCommands, 1,
           IF fail_at <= Len(MdGitCommands) THEN fail_at
           ELSE Len(MdGitCommands))

\* The lines README.md is built from: the JiSo row with each configured
\* identifier and with another one, lines with one marker only, and text.
MdLineKinds ==
    { LineTemplate(JisoIds[k]) : k \in 1..Len(JisoIds) }
    \cup { LineTemplate("6294881820"), << "| ", NameMarker, " |\n" >>,
           << "[", LinkMarker, "]\n" >>, << "# title\n" >> }

\* Every file of at most n lines.
RECURSIVE MdFiles(_)
MdFiles(n) ==
    IF n = 0 THEN { << >> }
    ELSE LET shorter == MdFiles(n - 1)
         IN  shorter \cup { f \o << l >> : f \in shorter, l \in MdLineKinds }

\* link_updater.py is not running.
UpdaterIdle ==
    /\ repo_is_dir = "true"
    /\ file_is_file = "true"
    /\ interval_min = 1
    /\ interval_max = 1
    /\ link_id_1 = DefaultLinkId1
    /\ link_id_2 = DefaultLinkId2
    /\ file = << >>
    /\ last_replacement = << >>
    /\ pc = "idle"
    /\ signal = "none"
    /\ git_calls = << >>
    /\ wait_time = Seconds(0)
    /\ sleeps = 0
    /\ io_fault = "none"
    /\ exit_code = -1
    /\ exit_message = "none"

updater_vars == << cfg_vars, last_replacement, file, pc, signal, git_calls,
                   wait_time, sleeps, io_fault, exit_code, exit_message >>

\* python markdown.py starts in the script's directory.
InitMd ==
    /\ UpdaterIdle
    /\ md_pc = "replace"
    /\ md_lines \in MdFiles(MaxLines)
    /\ md_random_id = ""
    /\ md_git = << >>

\* replace_jiso_line('README.md').
DoReplaceJisoLine ==
    /\ md_pc = "replace"
    /\ IF FirstJisoLine(md_lines) = 0
       THEN /\ md_lines' = ReplaceJisoLine(md_lines, "")
            /\ UNCHANGED md_random_id
       ELSE \E random_id \in RandomChoice(JisoIds) :
              /\ md_random_id' = random_id
              /\ md_lines' = ReplaceJisoLine(md_lines, random_id)
    /\ md_pc' = "git"
    /\ UNCHANGED << updater_vars, md_git >>

\* git_operations(script_dir).
DoGitOperations ==
    /\ md_pc = "git"
    /\ \E fail_at \in 1..(Len(MdGitCommands) + 1) :
         md_git' = GitOperations(fail_at)
    /\ md_pc' = "done"
    /\ UNCHANGED << updater_vars, md_lines, md_random_id >>

NextMd ==
    \/ DoReplaceJisoLine
    \/ DoGitOperations

SpecMd == InitMd /\ [][NextMd]_vars


\* ------------------------------------------------------------------------
\* Vocabulary of the properties.

\* The URL form of id occurs in text.
HasLink(id, text) == Search(UrlForm(id), text)

\* This step is one call of _update_links by run().
UpdateStep == pc = "update" /\ pc' \in { "add", "sleep" }

\* The file holds the URL form of exactly one of the two identifiers.
ExactlyOneLink(text) ==
    HasLink(link_id_1, text) # HasLink(link_id_2, text)

\* The identifier whose URL form the file holds, and the other one.
PresentId(text) == IF HasLink(link_id_1, text) THEN link_id_1 ELSE link_id_2
OtherId(text) == IF HasLink(link_id_1, text) THEN link_id_2 ELSE link_id_1

\* The configuration passes every check of _validate_config.
ValidConfig ==
    /\ repo_is_dir = "true"
    /\ file_is_file = "true"
    /\ interval_min > 0
    /\ interval_max > 0
    /\ interval_min <= interval_max

\* A git command of this cycle did not end with exit status zero.
GitFailed == \E i \in 1..Len(git_calls) : git_calls[i].outcome # "zero"

\* The commands of git_calls, in order.
GitCommands == [i \in 1..Len(git_calls) |-> git_calls[i].cmd]

\* ------------------------------------------------------------------------
\* C1.  For two distinct non-empty identifiers and a file that holds the URL
\* form of exactly one of them, one call of _update_links (whose file I/O
\* does not fail) returns True and leaves the file holding the URL form of
\* the other identifier and no longer that of the identifier that was there.
C1_RotationReplacesPresentLink ==
    [][ ( /\ UpdateStep
          /\ io_fault' = "none"
          /\ link_id_1 # link_id_2
          /\ link_id_1 # << >>
          /\ link_id_2 # << >>
          /\ ExactlyOneLink(file) )
        => ( /\ pc' = "add"
             /\ signal' = "replaced"
             /\ HasLink(OtherId(file), file')
             /\ ~HasLink(PresentId(file), file') ) ]_vars

\* ------------------------------------------------------------------------
\* C2.  When the file holds the URL forms of both identifiers as a cycle
\* starts, _update_links returns False without writing the file and the
\* cycle runs no git command; the message it prints is the ambiguity one
\* whenever the file could be read.
C2_AmbiguousFileIsLeftAlone ==
    /\ [][ ( /\ UpdateStep
             /\ HasLink(link_id_1, file)
             /\ HasLink(link_id_2, file) )
           => ( /\ pc' = "sleep"
                /\ file' = file
                /\ git_calls' = << >>
                /\ (io_fault' # "read" => signal' = "ambiguous") ) ]_vars
    /\ [](signal = "ambiguous" =>
            git_calls = << >> /\ pc \in { "sleep", "sleeping", "update", "exit" })

\* A cycle found both links and stands before its sleep.
C2_Witness ==
    /\ signal = "ambiguous"
    /\ pc = "sleep"
    /\ HasLink(link_id_1, file)
    /\ HasLink(link_id_2, file)

\* ------------------------------------------------------------------------
\* C3.  When the file holds the URL form of neither identifier as a cycle
\* starts, _update_links returns False without writing the file and the
\* cycle runs no git command; the message it prints is the not-found one
\* whenever the file could be read.
C3_FileWithoutLinkIsLeftAlone ==
    /\ [][ ( /\ UpdateStep
             /\ ~HasLink(link_id_1, file)
             /\ ~HasLink(link_id_2, file) )
           => ( /\ pc' = "sleep"
                /\ file' = file
                /\ git_calls' = << >>
                /\ (io_fault' # "read" => signal' = "not_found") ) ]_vars
    /\ [](signal = "not_found" =>
            git_calls = << >> /\ pc \in { "sleep", "sleeping", "update", "exit" })

\* A cycle found neither link in a file that is not empty and stands
\* before its sleep.
C3_Witness ==
    /\ signal = "not_found"
    /\ pc = "sleep"
    /\ file # << >>
    /\ ~HasLink(link_id_1, file)
    /\ ~HasLink(link_id_2, file)

\* ------------------------------------------------------------------------
\* C4.  An invalid configuration (repository path no existing directory,
\* target file not existing, an interval not positive, or min above max)
\* never enters the loop: no _update_links call, no git command, no sleep,
\* and once main has returned it returned 1 after a configuration error.
\* run() is called and the loop entered only with a valid configuration.
\* (A user who interrupts the start-up is not this claim's case.)
C4_InvalidConfigNeverLoops ==
    /\ ~ValidConfig =>
         /\ pc \in { "main", "exit" }
         /\ signal = "none"
         /\ git_calls = << >>
         /\ sleeps = 0
         /\ wait_time = Seconds(0)
         /\ (pc = "exit" /\ exit_message # "keyboard_interrupt") =>
              /\ exit_code = 1
              /\ exit_message = "config_error"
    /\ pc \in LoopStages \cup { "run" } => ValidConfig
    /\ ValidConfig => exit_code # 1

\* ------------------------------------------------------------------------
\* C5.  No failure ends the loop: once run() has returned (main returned
\* 0) it was stopped by the user's interruption, and after a git command
\* that failed or a failed _update_links the cycle reaches its sleep, after
\* which the next cycle starts (unless the user interrupts first).
C5_FailuresDoNotEndTheLoop ==
    /\ []((pc = "exit" /\ exit_code = 0) => exit_message = "stopped")
    /\ [](((GitFailed \/ signal = "update_failed") /\ pc \in LoopStages)
            => <>(pc = "sleeping" \/ exit_message = "stopped"))
    /\ [](pc = "sleeping" => <>(pc = "update" \/ exit_message = "stopped"))

\* ------------------------------------------------------------------------
\* C6.  After a successful substitution the cycle runs git add, git commit
\* and git push in that order, each at most once, and a step that fails
\* ends the cycle: no later git step runs after a failed one.
C6_FailedGitStepEndsTheCycle ==
    /\ \E n \in 0..3 : GitCommands = SubSeq(<< "add", "commit", "push" >>, 1, n)
    /\ \A i \in 1..Len(git_calls) :
         git_calls[i].outcome = "nonzero" => i = Len(git_calls)

\* ------------------------------------------------------------------------
\* C7.  With a validated configuration every cycle is followed by exactly
\* one sleep before the next one starts, and the sleep lasts between
\* interval_min * 60 and interval_max * 60 seconds: time.sleep is called
\* once per cycle, with an argument in that range, and the program then
\* sleeps (unless the user interrupts first).
C7_OneSleepWithinTheInterval ==
    /\ [](pc \in { "add", "commit", "push", "sleep" } => sleeps = 0)
    /\ [](pc = "sleeping" => sleeps = 1 /\ wait_time # Seconds(0))
    /\ [](wait_time # Seconds(0) =>
            /\ wait_time.seconds \in 0..(SecondsPerMinute - 1)
            /\ AtMost(Duration(interval_min, 0), wait_time)
            /\ AtMost(wait_time, Duration(interval_max, 0)))
    /\ []((pc = "update" /\ signal # "none") => sleeps = 1)
    /\ [](pc = "sleep" => <>(pc = "sleeping" \/ exit_message = "stopped"))

\* ------------------------------------------------------------------------
\* C8.  With two distinct identifiers and nobody else writing the file, a
\* cycle that follows a rotation (and whose file I/O does not fail) finds
\* exactly one identifier again, never the ambiguous or the not-found case,
\* and rotates back: the present identifier alternates from cycle to cycle.
C8_PresentLinkAlternates ==
    [][ ( /\ UpdateStep
          /\ signal = "replaced"
          /\ io_fault' = "none"
          /\ link_id_1 # link_id_2 )
        => ( /\ ExactlyOneLink(file)
             /\ signal' = "replaced"
             /\ last_replacement' =
                  << last_replacement[2], last_replacement[1] >>
             /\ ExactlyOneLink(file') ) ]_vars

\* ------------------------------------------------------------------------
\* C9.  A successful rotation is a global substitution: the new URL form
\* occurs afterwards as often as the old one did before, what is written is
\* the text read with each old URL form replaced by the new one, and the
\* rest of the file is as it was on disk.
C9_RotationIsGlobalSubstitution ==
    [][ ( /\ UpdateStep
          /\ signal' = "replaced" )
        => ( /\ FindAllCount(UrlForm(OtherId(file)), file')
                  = FindAllCount(UrlForm(PresentId(file)), file)
             /\ file' = SubLiteral(UrlForm(PresentId(file)),
                                   UrlForm(OtherId(file)), file) ) ]_vars

\* ------------------------------------------------------------------------
\* C10.  When the JiSo line carries one of the four identifiers, the
\* identifier replace_jiso_line writes is one of the four and differs from
\* the one the line carried.
C10_ReplacementDiffers ==
    [][ ( /\ md_pc = "replace"
          /\ md_pc' = "git"
          /\ FirstJisoLine(md_lines) # 0
          /\ \E k \in 1..Len(JisoIds) :
               md_lines[FirstJisoLine(md_lines)] = LineTemplate(JisoIds[k]) )
        => ( /\ md_random_id' \in { JisoIds[k] : k \in 1..Len(JisoIds) }
             /\ md_lines'[FirstJisoLine(md_lines)] = LineTemplate(md_random_id')
             /\ md_lines'[FirstJisoLine(md_lines)]
                  # md_lines[FirstJisoLine(md_lines)] ) ]_vars

====
